---- MODULE Spec2Model ----
(***************************************************************************)
(* AirtableCMS (jovo-cms-airtable): the plugin's install step and the      *)
(* paginated retrieval loadTableData, as a state machine.                  *)
(*                                                                         *)
(* A JavaScript string that the code inspects character by character (a    *)
(* sheet's type) is a sequence of one-character strings; other strings are *)
(* TLA+ strings.  `undefined` is the value Undefined.  An object's fields  *)
(* are a sequence of [key, value] entries in the object's own key order.   *)
(***************************************************************************)
EXTENDS Integers, Sequences, FiniteSets, TLC

\* ------------------------------------------------------------------ bounds
\* Most sheets a configuration lists.
MaxSheets == 2
\* Most pages the source delivers for one fetch.
MaxPages == 2
\* Most records of one remote table (over all its pages).
MaxRows == 2

\* ------------------------------------------------------- JavaScript values
Undefined == "<undefined>"

\* A string is falsy when it is undefined or empty.
Truthy(s) == s # Undefined /\ s # ""

\* The type of a sheet that declares none.
UndefinedType == <<Undefined>>

TruthyType(t) == t # UndefinedType /\ t # <<>>

UpperCase ==
    <<"A", "B", "C", "D", "E", "F", "G", "H", "I", "J", "K", "L", "M",
      "N", "O", "P", "Q", "R", "S", "T", "U", "V", "W", "X", "Y", "Z">>

LowerCase ==
    <<"a", "b", "c", "d", "e", "f", "g", "h", "i", "j", "k", "l", "m",
      "n", "o", "p", "q", "r", "s", "t", "u", "v", "w", "x", "y", "z">>

toLowerCaseChar(ch) ==
    IF \E i \in DOMAIN UpperCase : UpperCase[i] = ch
    THEN LowerCase[CHOOSE i \in DOMAIN UpperCase : UpperCase[i] = ch]
    ELSE ch

\* String.prototype.toLowerCase
toLowerCase(s) == [i \in 1..Len(s) |-> toLowerCaseChar(s[i])]

\* ------------------------------------------------------------------ errors
NoError == [kind |-> "none", message |-> "", code |-> "", module |-> ""]

\* new JovoError(message, code, module, ...)
JovoError(message, code, module) ==
    [kind |-> "JovoError", message |-> message, code |-> code, module |-> module]

\* A TypeError raised by the JavaScript runtime.
TypeError(message) ==
    [kind |-> "TypeError", message |-> message, code |-> "TypeError", module |-> ""]

\* ----------------------------------------------------------- configuration
\* The four table types of install's lookup object, by their (lower-case) keys.
KeyDefault == <<"d", "e", "f", "a", "u", "l", "t">>
KeyResponses == <<"r", "e", "s", "p", "o", "n", "s", "e", "s">>
KeyKeyValue == <<"k", "e", "y", "v", "a", "l", "u", "e">>
KeyObjectArray == <<"o", "b", "j", "e", "c", "t", "a", "r", "r", "a", "y">>

\* Type names are taken not to collide with the properties the lookup object
\* inherits from Object.prototype ("constructor", "__proto__").
defaultSheetMap ==
    (KeyDefault :> "DefaultTable") @@ (KeyResponses :> "ResponsesTable")
    @@ (KeyKeyValue :> "KeyValueTable") @@ (KeyObjectArray :> "ObjectArrayTable")

\* The literal 'Default' install assigns to a sheet without a type.
LiteralDefault == <<"D", "e", "f", "a", "u", "l", "t">>

\* The sheet types a configuration may declare: none, the empty string, the
\* known names in several letter cases, and names install does not know.
SheetTypes ==
    { UndefinedType, <<>>,
      KeyDefault, LiteralDefault,
      KeyResponses, <<"R", "E", "S", "P", "O", "N", "S", "E", "S">>,
      KeyKeyValue, <<"K", "e", "y", "V", "a", "l", "u", "e">>,
      <<"K", "E", "Y", "V", "A", "L", "U", "E">>,
      KeyObjectArray, <<"O", "b", "j", "e", "c", "t", "A", "r", "r", "a", "y">>,
      <<"b", "o", "g", "u", "s">>, <<"C", "u", "s", "t", "o", "m">>,
      <<"d", "e", "f", "a", "u", "l", "t", "s">> }

TableNames == {"Users", "Items"}

\* AirtableTable: one configured sheet.
Sheets == [name : TableNames, type : SheetTypes]

Credentials == {Undefined, "", "secret"}

\* Config: apiKey, baseId, sheets (the constructor merges the user's values
\* over undefined, undefined, []).
Configs ==
    [apiKey : Credentials, baseId : Credentials,
     sheets : UNION {[1..n -> Sheets] : n \in 0..MaxSheets}]

\* The configurations of the retrieval runs: the credentials given or not, no
\* sheet.
FetchConfigs ==
    [apiKey : {Undefined, "secret"}, baseId : {Undefined, "appBase"}, sheets : {<<>>}]

\* this.base before install assigns it.
NoBase == [apiKey |-> Undefined, baseId |-> Undefined]

VARIABLES
    config,        \* this.config
    installState,  \* "constructed", "installed", or "failed" (install threw)
    installError,  \* what install threw, NoError if nothing
    setupHooks,    \* functions registered on the app's 'setup' middleware
    plugins,       \* the table strategies registered with this.use, in order
    base,          \* this.base
    clients,       \* Airtable clients created (new Airtable(...).base(...))
    calls,         \* the loadTableData calls made so far, in order
    setupRuns      \* the runs of the registered 'setup' function, in order

vars ==
    <<config, installState, installError, setupHooks, plugins, base, clients, calls,
      setupRuns>>

\* ----------------------------------------------------------------- install
\* SheetType with the lookup made on the type as declared, not lower-cased.
SheetType_CaseSensitive(sheet) ==
    LET t1 == IF ~TruthyType(sheet.type) THEN LiteralDefault ELSE UndefinedType
    IN IF TruthyType(sheet.type) /\ sheet.type \in DOMAIN defaultSheetMap
       THEN sheet.type
       ELSE t1

\* SheetType with 'Default' for every type the lookup does not know.
SheetType_FallbackDefault(sheet) ==
    IF TruthyType(sheet.type) /\ toLowerCase(sheet.type) \in DOMAIN defaultSheetMap
    THEN toLowerCase(sheet.type)
    ELSE LiteralDefault

\* Lines 51-57: the local `type` after the two tests on sheet.type.
SheetType(sheet) ==
    LET t0 == UndefinedType
        t1 == IF ~TruthyType(sheet.type) THEN LiteralDefault ELSE t0
        t2 == IF /\ TruthyType(sheet.type)
                 /\ toLowerCase(sheet.type) \in DOMAIN defaultSheetMap
              THEN toLowerCase(sheet.type)
              ELSE t1
    IN t2

\* Lines 50-61: the forEach over config.sheets from sheet i on; `registered`
\* is the list this.use has built so far.  An entry is the strategy class
\* instantiated and the sheet (by its index) it was instantiated with.
RECURSIVE RegisterSheets(_, _, _)
RegisterSheets(sheets, i, registered) ==
    IF i > Len(sheets)
    THEN registered
    ELSE LET type == SheetType(sheets[i])
         IN RegisterSheets(sheets, i + 1,
                IF TruthyType(type)
                THEN Append(registered,
                            [table |-> defaultSheetMap[toLowerCase(type)], sheet |-> i])
                ELSE registered)

\* CredentialError without the test of the base identifier.
CredentialError_ApiKeyOnly(cfg) ==
    IF ~Truthy(cfg.apiKey)
    THEN JovoError("Can't find api key", "ERR_PLUGIN", "jovo-cms-airtable")
    ELSE NoError

\* Lines 63-80: the error install throws for the credentials, NoError if none.
CredentialError(cfg) ==
    IF ~Truthy(cfg.apiKey)
    THEN JovoError("Can't find api key", "ERR_PLUGIN", "jovo-cms-airtable")
    ELSE IF ~Truthy(cfg.baseId)
    THEN JovoError("Can't find baseId", "ERR_PLUGIN", "jovo-cms-airtable")
    ELSE NoError

\* install(app)
Install ==
    /\ installState = "constructed"
    /\ setupHooks' = setupHooks + 1
    /\ plugins' = RegisterSheets(config.sheets, 1, plugins)
    /\ LET err == CredentialError(config)
       IN /\ installError' = err
          /\ IF err = NoError
             THEN /\ base' = [apiKey |-> config.apiKey, baseId |-> config.baseId]
                  /\ clients' = clients + 1
                  /\ installState' = "installed"
             ELSE /\ installState' = "failed"
                  /\ UNCHANGED <<base, clients>>
    /\ UNCHANGED <<config, calls, setupRuns>>

\* ------------------------------------------------------------ remote source
FieldNames == {"Name", "ID"}
CellValues == {"a", "b"}

\* One entry of a record's `fields` object.
FieldEntries == [key : FieldNames, value : CellValues]

\* A record's `fields` object: entries with distinct keys, in the order the
\* source delivers them.  A record may lack any field (Airtable leaves out
\* the empty cells of a row).
Records ==
    UNION { { f \in [1..n -> FieldEntries] :
                \A i, j \in 1..n : i # j => f[i].key # f[j].key }
            : n \in 0..Cardinality(FieldNames) }

\* The pages of at most n records.
Pages(n) == UNION {[1..k -> Records] : k \in 0..n}

\* The errors the source may complete with.
SourceErrors ==
    { [name |-> "Error", message |-> "connect ETIMEDOUT"],
      [name |-> "AirtableError", message |-> "Could not find table"] }

NoSourceError == [name |-> "", message |-> ""]

SelectOptionsBags == {[view |-> "Grid view"]}

\* ----------------------------------------------------------- loadTableData
Object_keys(fields) == [i \in 1..Len(fields) |-> fields[i].key]

Object_values(fields) == [i \in 1..Len(fields) |-> fields[i].value]

\* shiftLastItemToFirstIndex returning the array as it was given.
shiftLastItemToFirstIndex_Unshifted(arr) == arr

\* shiftLastItemToFirstIndex(arr): pop() of an empty array gives undefined.
shiftLastItemToFirstIndex(arr) ==
    LET lastItem == IF Len(arr) = 0 THEN Undefined ELSE arr[Len(arr)]
        popped == IF Len(arr) = 0 THEN <<>> ELSE SubSeq(arr, 1, Len(arr) - 1)
    IN <<lastItem>> \o popped

\* Lines 111-116: the forEach over the page's records from record i on.
RECURSIVE PushValues(_, _, _)
PushValues(arr, records, i) ==
    IF i > Len(records)
    THEN arr
    ELSE PushValues(Append(arr, shiftLastItemToFirstIndex(Object_values(records[i]))),
                    records, i + 1)

\* The promise of a call and the callbacks' closure, as loadTableData leaves
\* them: line 95 (arr), line 97 (the fetch is issued once, select() receives
\* the caller's bag as selectArg).  delivered is what the source handed to the
\* page callbacks, records is what those record objects hold afterwards.
NewCall(selectOptions, table) ==
    [table |-> table, selectOptions |-> selectOptions,
     arr |-> <<>>,
     promise |-> "pending", value |-> <<>>, reason |-> NoError,
     source |-> "fetching", selects |-> 1,
     selectArg |-> selectOptions,
     delivered |-> <<>>, records |-> <<>>, doneErr |-> NoSourceError,
     thrown |-> NoError, fetchNextCalls |-> 0]

\* this.base is undefined (install has not assigned it): this.base(table)
\* raises a TypeError inside the promise's executor, which rejects the promise.
FailedCall(selectOptions, table) ==
    [NewCall(selectOptions, table) EXCEPT
        !.promise = "rejected",
        !.reason = TypeError("this.base is not a function"),
        !.source = "none", !.selects = 0]

\* PageCallback resolving the promise with the rows of the page it was given.
PageCallback_ResolvesEarly(call, records) ==
    IF Len(records) = 0
    THEN [call EXCEPT
            !.delivered = Append(@, records),
            !.records = Append(@, records),
            !.thrown = TypeError("Cannot convert undefined or null to object"),
            !.source = "stalled"]
    ELSE LET keys == shiftLastItemToFirstIndex(Object_keys(records[1]))
             rows == PushValues(Append(call.arr, keys), records, 1)
         IN [call EXCEPT
                !.delivered = Append(@, records),
                !.records = Append(@, records),
                !.arr = rows,
                !.promise = "resolved", !.value = rows,
                !.fetchNextCalls = @ + 1]

\* PageCallback repositioning the fields of the source's records in place
\* instead of the arrays made by Object.keys and Object.values.
PageCallback_MutatesRecords(call, records) ==
    IF Len(records) = 0
    THEN [call EXCEPT
            !.delivered = Append(@, records),
            !.records = Append(@, records),
            !.thrown = TypeError("Cannot convert undefined or null to object"),
            !.source = "stalled"]
    ELSE LET shifted == [j \in 1..Len(records) |->
                            IF records[j] = <<>> THEN <<>>
                            ELSE shiftLastItemToFirstIndex(records[j])]
             keys == IF shifted[1] = <<>> THEN <<Undefined>> ELSE Object_keys(shifted[1])
             rows == [j \in 1..Len(records) |->
                         IF shifted[j] = <<>> THEN <<Undefined>>
                         ELSE Object_values(shifted[j])]
         IN [call EXCEPT
                !.delivered = Append(@, records),
                !.records = Append(@, shifted),
                !.arr = Append(@, keys) \o rows,
                !.fetchNextCalls = @ + 1]

\* Lines 97-121, the page callback, on a call's closure.  With no record,
\* _get(records[0], 'fields') is undefined and Object.keys(undefined) throws:
\* nothing is pushed and fetchNextPage is not called.
PageCallback(call, records) ==
    IF Len(records) = 0
    THEN [call EXCEPT
            !.delivered = Append(@, records),
            !.records = Append(@, records),
            !.thrown = TypeError("Cannot convert undefined or null to object"),
            !.source = "stalled"]
    ELSE LET keys == shiftLastItemToFirstIndex(Object_keys(records[1]))
         IN [call EXCEPT
                !.delivered = Append(@, records),
                !.records = Append(@, records),
                !.arr = PushValues(Append(@, keys), records, 1),
                !.fetchNextCalls = @ + 1]

\* DoneCallback rejecting only when no row has been accumulated.
DoneCallback_ResolvesPartial(call, err) ==
    IF err # NoSourceError /\ call.arr = <<>>
    THEN [call EXCEPT
            !.source = "done", !.doneErr = err,
            !.promise = "rejected",
            !.reason = JovoError(err.message, err.name, "jovo-cms-airtable")]
    ELSE [call EXCEPT
            !.source = "done", !.doneErr = err,
            !.promise = "resolved", !.value = call.arr]

\* Lines 123-132, the completion callback.
DoneCallback(call, err) ==
    IF err # NoSourceError
    THEN [call EXCEPT
            !.source = "done", !.doneErr = err,
            !.promise = "rejected",
            !.reason = JovoError(err.message, err.name, "jovo-cms-airtable")]
    ELSE [call EXCEPT
            !.source = "done", !.doneErr = err,
            !.promise = "resolved", !.value = call.arr]

RECURSIVE SumLen(_)
SumLen(pages) == IF pages = <<>> THEN 0 ELSE Len(Head(pages)) + SumLen(Tail(pages))

\* loadTableData(selectOptions, table)
LoadTableData(selectOptions, table) ==
    /\ calls' = Append(calls, IF base = NoBase
                              THEN FailedCall(selectOptions, table)
                              ELSE NewCall(selectOptions, table))
    /\ UNCHANGED <<config, installState, installError, setupHooks, plugins, base, clients,
                   setupRuns>>

\* SourcePage with one accumulator for all calls (arr kept on the plugin
\* instead of in the call's closure): every call sees the rows pushed.
SourcePage_SharedArr(c, records) ==
    /\ calls[c].source = "fetching"
    /\ Len(calls[c].delivered) < MaxPages
    /\ SumLen(calls[c].delivered) + Len(records) <= MaxRows
    /\ calls' = [d \in DOMAIN calls |->
                    IF d = c
                    THEN PageCallback(calls[c], records)
                    ELSE [calls[d] EXCEPT !.arr = PageCallback(calls[c], records).arr]]
    /\ UNCHANGED <<config, installState, installError, setupHooks, plugins, base, clients,
                   setupRuns>>

\* The source delivers the next page of call c: the page callback runs.
SourcePage(c, records) ==
    /\ calls[c].source = "fetching"
    /\ Len(calls[c].delivered) < MaxPages
    /\ SumLen(calls[c].delivered) + Len(records) <= MaxRows
    /\ calls' = [calls EXCEPT ![c] = PageCallback(calls[c], records)]
    /\ UNCHANGED <<config, installState, installError, setupHooks, plugins, base, clients,
                   setupRuns>>

\* The source has no further page for call c (the page callback asked for the
\* next one): the completion callback runs without an error.
SourceDone(c) ==
    /\ calls[c].source = "fetching"
    /\ calls[c].fetchNextCalls > 0
    /\ calls' = [calls EXCEPT ![c] = DoneCallback(calls[c], NoSourceError)]
    /\ UNCHANGED <<config, installState, installError, setupHooks, plugins, base, clients,
                   setupRuns>>

\* A request of call c fails: the completion callback runs with the error.
SourceError(c, err) ==
    /\ calls[c].source = "fetching"
    /\ calls' = [calls EXCEPT ![c] = DoneCallback(calls[c], err)]
    /\ UNCHANGED <<config, installState, installError, setupHooks, plugins, base, clients,
                   setupRuns>>

\* ------------------------------------------------------- the setup phase
\* Most invocations of the host's setup phase.
MaxRequests == 2

HandleRequests == {"request1", "request2"}

\* The errors a run of the 'retrieve' middleware may fail with.
RetrieveErrors == {JovoError("Could not find table", "AirtableError", "jovo-cms-airtable")}

\* retrieveSpreadsheetData resolving without awaiting the run it starts.
retrieveSpreadsheetData_NoAwait(handleRequest, invocation) ==
    [invocation |-> invocation, handleRequest |-> handleRequest,
     retrieveArgs |-> <<handleRequest>>,
     retrieve |-> "running", retrieveError |-> NoError,
     hook |-> "resolved", hookError |-> NoError]

\* Lines 89-90, retrieveSpreadsheetData(handleRequest) up to its await: the
\* 'retrieve' middleware is run with handleRequest and the function's promise
\* is pending.  `invocation` numbers the setup phase that called it.
retrieveSpreadsheetData(handleRequest, invocation) ==
    [invocation |-> invocation, handleRequest |-> handleRequest,
     retrieveArgs |-> <<handleRequest>>,
     retrieve |-> "running", retrieveError |-> NoError,
     hook |-> "pending", hookError |-> NoError]

\* Lines 90-91, after the await: the function's promise resolves when the run
\* has completed and rejects with the run's error when it has failed.
RetrieveSettled(run, err) ==
    IF err = NoError
    THEN [run EXCEPT !.retrieve = "completed", !.hook = "resolved"]
    ELSE [run EXCEPT !.retrieve = "failed", !.retrieveError = err,
                     !.hook = "rejected", !.hookError = err]

\* The setup phases the host has run so far.
Invocations == IF setupRuns = <<>> THEN 0 ELSE setupRuns[Len(setupRuns)].invocation

\* The host runs its 'setup' middleware for a request: every function
\* registered on it (line 40) is called with the request.
RunSetup(handleRequest) ==
    /\ setupHooks > 0
    /\ Invocations < MaxRequests
    /\ setupRuns' = setupRuns \o
           [k \in 1..setupHooks |-> retrieveSpreadsheetData(handleRequest, Invocations + 1)]
    /\ UNCHANGED <<config, installState, installError, setupHooks, plugins, base, clients,
                   calls>>

\* The run of the 'retrieve' middleware that run i awaits ends, with an error
\* or without.
RetrieveEnds(i, err) ==
    /\ setupRuns[i].retrieve = "running"
    /\ setupRuns' = [setupRuns EXCEPT ![i] = RetrieveSettled(setupRuns[i], err)]
    /\ UNCHANGED <<config, installState, installError, setupHooks, plugins, base, clients,
                   calls>>

\* --------------------------------------------------------- specifications
InitState ==
    /\ installState = "constructed"
    /\ installError = NoError
    /\ setupHooks = 0
    /\ plugins = <<>>
    /\ base = NoBase
    /\ clients = 0
    /\ calls = <<>>
    /\ setupRuns = <<>>

\* One retrieval: the plugin is constructed, installed, and loadTableData is
\* called once.
Init == config \in FetchConfigs /\ InitState

Next ==
    \/ Install
    \/ \E t \in TableNames, o \in SelectOptionsBags : calls = <<>> /\ LoadTableData(o, t)
    \/ \E c \in DOMAIN calls :
           \E records \in Pages(MaxRows - SumLen(calls[c].delivered)) :
               SourcePage(c, records)
    \/ \E c \in DOMAIN calls : SourceDone(c)
    \/ \E c \in DOMAIN calls, err \in SourceErrors : SourceError(c, err)

Spec == Init /\ [][Next]_vars

\* Installation over every configuration, and the issue of one fetch before
\* or after it; the source's replies are left out.
InitInstall == config \in Configs /\ InitState

NextInstall ==
    \/ Install
    \/ \E t \in TableNames, o \in SelectOptionsBags : calls = <<>> /\ LoadTableData(o, t)

SpecInstall == InitInstall /\ [][NextInstall]_vars

\* The records and pages of the concurrent retrievals.
ConcRecords ==
    { <<[key |-> "Name", value |-> "a"], [key |-> "ID", value |-> "b"]>>,
      <<[key |-> "ID", value |-> "a"]>> }

ConcPages(n) == UNION {[1..k -> ConcRecords] : k \in 0..n}

\* Concurrent retrievals: loadTableData is called once for each of several
\* tables and the source's replies to the calls interleave.
NextConc ==
    \/ Install
    \/ \E t \in TableNames, o \in SelectOptionsBags :
           /\ \A c \in DOMAIN calls : calls[c].table # t
           /\ LoadTableData(o, t)
    \/ \E c \in DOMAIN calls :
           \E records \in ConcPages(MaxRows - SumLen(calls[c].delivered)) :
               SourcePage(c, records)
    \/ \E c \in DOMAIN calls : SourceDone(c)
    \/ \E c \in DOMAIN calls, err \in SourceErrors : SourceError(c, err)

SpecConc == Init /\ [][NextConc]_vars

\* Installation and the host's setup phases.
NextSetup ==
    \/ Install
    \/ \E r \in HandleRequests : RunSetup(r)
    \/ \E i \in DOMAIN setupRuns, err \in RetrieveErrors \cup {NoError} : RetrieveEnds(i, err)

SpecSetup == Init /\ [][NextSetup]_vars

\* ------------------------------------------------------------------ claims
\* What the specification expects of a retrieved table.

\* The records of some pages, in delivery order.
RECURSIVE Flatten(_)
Flatten(pages) == IF pages = <<>> THEN <<>> ELSE Head(pages) \o Flatten(Tail(pages))

\* One data row per record, in order, each record's values repositioned.
DataRows(records) ==
    [j \in 1..Len(records) |-> shiftLastItemToFirstIndex(Object_values(records[j]))]

\* Whether the elements of s occur in t, in s's order.
RECURSIVE IsSubSeq(_, _)
IsSubSeq(s, t) ==
    IF s = <<>> THEN TRUE
    ELSE IF t = <<>> THEN FALSE
    ELSE IF Head(s) = Head(t) THEN IsSubSeq(Tail(s), Tail(t))
    ELSE IsSubSeq(s, Tail(t))

\* The value a record has for a column, undefined if it has none.
FieldValue(fields, key) ==
    IF \E i \in DOMAIN fields : fields[i].key = key
    THEN fields[CHOOSE i \in DOMAIN fields : fields[i].key = key].value
    ELSE Undefined

\* The cell of a row at a position, undefined past the row's end.
Cell(row, i) == IF i \in DOMAIN row THEN row[i] ELSE Undefined

Resolved(c) == calls[c].promise = "resolved"

\* C1: a table delivered as k >= 1 non-empty pages resolves with exactly one
\* header row, at index 0: one row more than the table has records, the first
\* of them the first record's keys, repositioned.
C1_OneHeaderRow ==
    \A c \in DOMAIN calls :
        (/\ Resolved(c)
         /\ Len(calls[c].delivered) >= 1
         /\ \A p \in DOMAIN calls[c].delivered : calls[c].delivered[p] # <<>>)
        => /\ Len(calls[c].value) = 1 + SumLen(calls[c].delivered)
           /\ calls[c].value[1]
                = shiftLastItemToFirstIndex(Object_keys(calls[c].delivered[1][1]))

\* C2: the rows after row 0 of a resolved table are the records of the pages
\* in delivery order, each record's values repositioned: none reordered,
\* dropped, duplicated or inserted.
C2_RowOrderPreserved ==
    \A c \in DOMAIN calls :
        Resolved(c)
        => /\ calls[c].value # <<>>
           /\ Tail(calls[c].value) = DataRows(Flatten(calls[c].delivered))

\* C3: the header row and every data row of a resolved table have the same
\* length, whatever fields the records have.
C3_ColumnCount ==
    \A c \in DOMAIN calls :
        Resolved(c)
        => \A r \in DOMAIN calls[c].value :
               Len(calls[c].value[r]) = Len(calls[c].value[1])

\* C4: in a resolved table the cell at position i of the row of a record is
\* that record's value for the column named at position i of the header row.
C4_ColumnAlignment ==
    \A c \in DOMAIN calls :
        Resolved(c)
        => LET records == Flatten(calls[c].delivered)
               header == calls[c].value[1]
           IN \A j \in DOMAIN records :
                  /\ j + 1 \in DOMAIN calls[c].value
                  /\ \A i \in DOMAIN header :
                         Cell(calls[c].value[j + 1], i) = FieldValue(records[j], header[i])

\* C7: a page with no record makes the page callback raise nothing and push
\* nothing, and when the source then completes without an error the promise
\* resolves with the empty sequence.
C7_EmptyTableResolvesEmpty ==
    \A c \in DOMAIN calls :
        calls[c].delivered = << <<>> >>
        => /\ calls[c].thrown = NoError
           /\ calls[c].arr = <<>>
           /\ calls[c].source \in {"fetching", "done"}
           /\ (calls[c].source = "done" /\ calls[c].doneErr = NoSourceError
                 => Resolved(c) /\ calls[c].value = <<>>)

\* C8: when the source completes with an error, after any number of pages,
\* the promise is rejected with a JovoError carrying the error's message and
\* the tag 'jovo-cms-airtable'; it is not resolved with the rows accumulated
\* so far, and the fetch has been issued once.
C8_ErrorRejects ==
    \A c \in DOMAIN calls :
        (calls[c].source = "done" /\ calls[c].doneErr # NoSourceError)
        => /\ calls[c].promise = "rejected"
           /\ calls[c].reason.kind = "JovoError"
           /\ calls[c].reason.message = calls[c].doneErr.message
           /\ calls[c].reason.module = "jovo-cms-airtable"
           /\ calls[c].value = <<>>
           /\ calls[c].selects = 1

C8_Witness ==
    \E c \in DOMAIN calls :
        /\ calls[c].source = "done"
        /\ calls[c].doneErr.message = "Could not find table"
        /\ Len(calls[c].delivered) = 2
        /\ calls[c].arr # <<>>
        /\ calls[c].promise = "rejected"

\* C9: a promise is resolved only by the completion callback running without
\* an error, never by a page callback or while the source may still deliver a
\* page; the resolved value is the accumulated table and holds the rows of
\* every delivered page, in order.
C9_ResolvedOnlyAfterDrain ==
    /\ [](\A c \in DOMAIN calls :
            Resolved(c)
            => /\ calls[c].source = "done"
               /\ calls[c].doneErr = NoSourceError
               /\ calls[c].value = calls[c].arr
               /\ IsSubSeq(DataRows(Flatten(calls[c].delivered)), calls[c].value))
    /\ [][\A c \in DOMAIN calls :
            (~Resolved(c) /\ calls'[c].promise = "resolved")
            => /\ calls[c].source = "fetching"
               /\ calls'[c].source = "done"
               /\ calls'[c].delivered = calls[c].delivered]_vars

C9_Witness ==
    \E c \in DOMAIN calls :
        /\ Resolved(c)
        /\ Len(calls[c].delivered) = 2
        /\ Len(calls[c].value) >= 4

\* Whether two type names are the same but for the case of their letters.
SameLetter(a, b) ==
    a = b \/ \E i \in DOMAIN UpperCase : {a, b} = {UpperCase[i], LowerCase[i]}

SameName(s, t) ==
    Len(s) = Len(t) /\ \A i \in DOMAIN s : SameLetter(s[i], t[i])

\* The strategy the specification gives each known type name.
KnownTypes ==
    { <<KeyDefault, "DefaultTable">>, <<KeyResponses, "ResponsesTable">>,
      <<KeyKeyValue, "KeyValueTable">>, <<KeyObjectArray, "ObjectArrayTable">> }

Unrecognized(t) == TruthyType(t) /\ \A k \in KnownTypes : ~SameName(t, k[1])

\* The strategies registered for the sheet at index i.
PluginsFor(i) == {k \in DOMAIN plugins : plugins[k].sheet = i}

InstallRan == installState # "constructed"

CredentialMissing == ~Truthy(config.apiKey) \/ ~Truthy(config.baseId)

C6_KnownTypesCaseInsensitive ==
    InstallRan
    => \A i \in DOMAIN config.sheets :
           LET t == config.sheets[i].type
           IN /\ t = UndefinedType
                 => /\ Cardinality(PluginsFor(i)) = 1
                    /\ \A k \in PluginsFor(i) : plugins[k].table = "DefaultTable"
              /\ \A known \in KnownTypes :
                     SameName(t, known[1])
                     => /\ Cardinality(PluginsFor(i)) = 1
                        /\ \A k \in PluginsFor(i) : plugins[k].table = known[2]

C6_Witness ==
    /\ InstallRan
    /\ Len(config.sheets) = 2
    /\ config.sheets[1].type = <<"K", "E", "Y", "V", "A", "L", "U", "E">>
    /\ config.sheets[2].type = UndefinedType
    /\ plugins = <<[table |-> "KeyValueTable", sheet |-> 1],
                   [table |-> "DefaultTable", sheet |-> 2]>>

\* C10: with the API key or the base identifier missing, install throws the
\* configuration error and this.base stays unassigned: no Airtable client is
\* created and no fetch is issued, whatever sheets are configured.
C10_MissingCredentialNoBase ==
    (InstallRan /\ CredentialMissing)
    => /\ installState = "failed"
       /\ installError.kind = "JovoError"
       /\ installError.code = "ERR_PLUGIN"
       /\ installError.module = "jovo-cms-airtable"
       /\ base = NoBase
       /\ clients = 0
       /\ \A c \in DOMAIN calls : calls[c].selects = 0

C10_Witness ==
    /\ installState = "failed"
    /\ Truthy(config.apiKey)
    /\ config.baseId = Undefined
    /\ Len(config.sheets) = 2
    /\ base = NoBase
    /\ \E c \in DOMAIN calls : calls[c].promise = "rejected"

\* C11: when install throws the configuration error it has done nothing
\* else: no function is registered on the 'setup' middleware and no table
\* strategy is registered.
C11_FailFastNoOtherStep ==
    installState = "failed" => setupHooks = 0 /\ plugins = <<>>

\* The runs of the registered function that setup phase n started.
RunsOf(n) == {i \in DOMAIN setupRuns : setupRuns[i].invocation = n}

\* C12: after a successful install, every setup phase runs the 'retrieve'
\* middleware exactly once, with the phase's request; the setup function
\* completes only once that run has completed, and fails with the run's
\* error when the run fails.
C12_SetupRunsRetrieveOnce ==
    installState = "installed"
    => \A n \in 1..Invocations :
           /\ Cardinality(RunsOf(n)) = 1
           /\ \A i \in RunsOf(n) :
                  LET run == setupRuns[i]
                  IN /\ run.retrieveArgs = <<run.handleRequest>>
                     /\ run.hook = "resolved" => run.retrieve = "completed"
                     /\ run.hook = "pending" <=> run.retrieve = "running"
                     /\ run.retrieve = "failed"
                          => /\ run.hook = "rejected"
                             /\ run.hookError = run.retrieveError
                             /\ run.hookError # NoError

C12_Witness ==
    /\ installState = "installed"
    /\ Invocations = 2
    /\ \E i, j \in DOMAIN setupRuns :
           /\ setupRuns[i].handleRequest # setupRuns[j].handleRequest
           /\ setupRuns[i].hook = "resolved"
           /\ setupRuns[j].hook = "rejected"

\* A non-empty sequence with its last element moved to the front.
MoveLastToFront(s) == <<s[Len(s)]>> \o SubSeq(s, 1, Len(s) - 1)

\* Whether a page is not empty and its records all have the same fields, at
\* least one, in the same order.
UniformPage(page) ==
    /\ page # <<>>
    /\ Object_keys(page[1]) # <<>>
    /\ \A j \in DOMAIN page : Object_keys(page[j]) = Object_keys(page[1])

\* C13: a table delivered as one non-empty page of records with the same
\* fields in the same order resolves with exactly the first record's field
\* names, the last moved to the front, and then one row per record, in order,
\* of that record's values, the last moved to the front.
C13_SinglePageTable ==
    \A c \in DOMAIN calls :
        (/\ Resolved(c)
         /\ Len(calls[c].delivered) = 1
         /\ UniformPage(calls[c].delivered[1]))
        => LET page == calls[c].delivered[1]
           IN calls[c].value
                = <<MoveLastToFront(Object_keys(page[1]))>>
                  \o [j \in 1..Len(page) |-> MoveLastToFront(Object_values(page[j]))]

C13_Witness ==
    \E c \in DOMAIN calls :
        /\ Resolved(c)
        /\ calls[c].delivered
             = << << <<[key |-> "Name", value |-> "a"], [key |-> "ID", value |-> "b"]>>,
                     <<[key |-> "Name", value |-> "b"], [key |-> "ID", value |-> "a"]>> >> >>
        /\ calls[c].value = << <<"ID", "Name">>, <<"b", "a">>, <<"a", "b">> >>

\* The rows the page callbacks of one call push for the pages of its own
\* table: for each page with a record, the keys of its first record and then
\* its records' values, repositioned.
RECURSIVE OwnRows(_)
OwnRows(pages) ==
    IF pages = <<>> THEN <<>>
    ELSE LET page == Head(pages)
         IN (IF page = <<>> THEN <<>>
             ELSE <<shiftLastItemToFirstIndex(Object_keys(page[1]))>> \o DataRows(page))
            \o OwnRows(Tail(pages))

\* C14: with several calls in flight for different tables, whose callbacks
\* interleave in any order, each call accumulates and resolves with the rows
\* of its own pages only, in their delivery order, and a callback of one call
\* (a page, a completion, an error) changes no other call.
C14_ConcurrentFetchesIsolated ==
    /\ [](\A c \in DOMAIN calls :
            /\ calls[c].arr = OwnRows(calls[c].delivered)
            /\ Resolved(c) => calls[c].value = OwnRows(calls[c].delivered))
    /\ [][\A c, d \in DOMAIN calls :
            (c # d /\ calls'[c] # calls[c]) => calls'[d] = calls[d]]_vars

C14_Witness ==
    \E c, d \in DOMAIN calls :
        /\ calls[c].table # calls[d].table
        /\ Resolved(c)
        /\ Len(calls[c].delivered) = 2
        /\ calls[d].promise = "rejected"
        /\ calls[d].reason.kind = "JovoError"
        /\ calls[d].arr # <<>>
        /\ calls[d].arr # calls[c].arr

\* C15: within one call, every page callback that has run has requested the
\* next page exactly once, after appending the rows of its page (the rows
\* accumulated are those of the pages delivered, in order), and no
\* continuation is requested once the source has signalled completion.
C15_EachPageRequestsNextOnce ==
    \A c \in DOMAIN calls :
        /\ calls[c].fetchNextCalls = Len(calls[c].delivered)
        /\ calls[c].arr = OwnRows(calls[c].delivered)

\* The key or value sequence each accumulated row was built from, row by
\* row: for each page with a record, the keys of its first record and then
\* the values of each of its records.
RECURSIVE RowSources(_)
RowSources(pages) ==
    IF pages = <<>> THEN <<>>
    ELSE LET page == Head(pages)
         IN (IF page = <<>> THEN <<>>
             ELSE <<Object_keys(page[1])>>
                  \o [j \in 1..Len(page) |-> Object_values(page[j])])
            \o RowSources(Tail(pages))

\* C18: every row accumulated by a call has exactly as many cells as the
\* record it was built from has fields, for every field count, zero
\* included: a record without fields gives an empty row.
C18_RowLengthIsFieldCount ==
    \A c \in DOMAIN calls :
        /\ Len(calls[c].arr) = Len(RowSources(calls[c].delivered))
        /\ \A i \in DOMAIN calls[c].arr :
              Len(calls[c].arr[i]) = Len(RowSources(calls[c].delivered)[i])

\* The repositioning of the specification: the last element moved to index 0,
\* the others shifted right by one; a sequence with no element stays as it is.
Reposition(s) == IF s = <<>> THEN <<>> ELSE MoveLastToFront(s)

\* C16: every row of a resolved table, header and data alike, is the key or
\* value sequence the source delivered, repositioned exactly once.
C16_RepositionedExactlyOnce ==
    \A c \in DOMAIN calls :
        Resolved(c) =>
            /\ Len(calls[c].value) = Len(RowSources(calls[c].delivered))
            /\ \A i \in DOMAIN calls[c].value :
                  calls[c].value[i] = Reposition(RowSources(calls[c].delivered)[i])

\* C17: every call settles exactly once.  A call the source has nothing more
\* to deliver to (its pages, empty or not, have been handed over and no
\* further callback will come) has its promise resolved or rejected; and the
\* promise of a settled call is never settled again.
C17_SettlesExactlyOnce ==
    /\ [](\A c \in DOMAIN calls :
            calls[c].source # "fetching" => calls[c].promise \in {"resolved", "rejected"})
    /\ [][\A c \in DOMAIN calls :
            calls[c].promise # "pending" =>
                /\ calls'[c].promise = calls[c].promise
                /\ calls'[c].value = calls[c].value
                /\ calls'[c].reason = calls[c].reason]_vars

\* C19: loadTableData leaves its inputs as they were: the records of every
\* page are afterwards what the source delivered (fields, key order, values)
\* and the selectOptions bag is the one select() was given.
C19_InputsUnchanged ==
    \A c \in DOMAIN calls :
        /\ calls[c].records = calls[c].delivered
        /\ calls[c].selectOptions = calls[c].selectArg
        /\ calls[c].selectOptions \in SelectOptionsBags

C19_Witness ==
    \E c \in DOMAIN calls :
        /\ Resolved(c)
        /\ \E p \in DOMAIN calls[c].delivered :
              \E j \in DOMAIN calls[c].delivered[p] :
                  LET fields == calls[c].delivered[p][j]
                  IN /\ Len(fields) = 2
                     /\ fields[1].value # fields[2].value
                     /\ calls[c].records[p][j] = fields
                     /\ \E i \in DOMAIN calls[c].value :
                           /\ calls[c].value[i] = MoveLastToFront(Object_values(fields))
                           /\ calls[c].value[i] # Object_values(fields)

====
